---- MODULE Spec2Model ----
(***************************************************************************)
(* Model of the BitMEX REST client of bordem (src/bitmex_request.py):      *)
(* endpoint table and per-operation callables, request preparation,        *)
(* HMAC signing of the prepared request, the cached transport and the      *)
(* response envelope; and of the facades over it (src/bordemwrapper.py):   *)
(* the trading methods of BitMEXFunctions and the data methods of          *)
(* BitMEXData, each of which makes its requests on a client of its own.    *)
(* The schedule helpers of TradeFunctions are a loop that reads one field  *)
(* of the local clock and sleeps.                                          *)
(*                                                                         *)
(* Strings are TLA+ strings joined with \o.  A URL is kept as its parts    *)
(* (host, path, query); UrlString joins them as the transport does and     *)
(* urlparse gives the parts back.  HMAC-SHA256 is an uninterpreted         *)
(* injective pairing of key and message.                                   *)
(***************************************************************************)
EXTENDS Integers, Sequences, FiniteSets, TLC

VARIABLES
    config_test,   \* config.test, read once when the class body runs
    clients,       \* the BitMEX objects: api_key, api_secret, session
    classFuncs,    \* attributes set on the BitMEX class by _create_func
    nsessions,     \* number of CachedSession objects constructed so far
    cache,         \* the sqlite response cache in the temp directory
    clock,         \* half seconds elapsed since ClockStart
    nwire,         \* number of requests handed to the network so far
    ncalls,        \* number of operation calls made so far
    call,          \* the trace of the last operation call
    facade,        \* the BitMEXFunctions or BitMEXData object
    op,            \* the trace of the last call of a method of the facade
    wall,          \* datetime.now(): the fields of the local time
    wait           \* the schedule helper that is running, and where it is

vars == <<config_test, clients, classFuncs, nsessions, cache, clock, nwire,
          ncalls, call, facade, op, wall, wait>>

(* ------------------------------- bounds ------------------------------- *)

ClockStart == 1700000000
MaxClock == 2
MaxCalls == 1
MaxClients == 2
MaxOps == 1
MaxSessionCalls == 2
MaxSeqOps == 2

(* ------------------------------ constants ----------------------------- *)

None == "<None>"

ClientIds == 1 .. MaxClients

Truthy(v) == v # None /\ v # ""

HttpVerbs == {"GET", "POST", "PUT", "DELETE"}

ExpiryWindow == 5

(* --------------------------- decimal strings -------------------------- *)

Digit(d) ==
    CASE d = 0 -> "0" [] d = 1 -> "1" [] d = 2 -> "2" [] d = 3 -> "3"
      [] d = 4 -> "4" [] d = 5 -> "5" [] d = 6 -> "6" [] d = 7 -> "7"
      [] d = 8 -> "8" [] d = 9 -> "9"

RECURSIVE StrNat(_)
StrNat(n) == IF n < 10 THEN Digit(n) ELSE StrNat(n \div 10) \o Digit(n % 10)

\* str() of a Python int
Str(n) == IF n < 0 THEN "-" \o StrNat(0 - n) ELSE StrNat(n)

(* ------------------------------- clock -------------------------------- *)

\* time(): a float, here whole seconds and a number of half seconds
TimeAt(k) == [sec |-> ClockStart + k \div 2, half |-> k % 2]

time == TimeAt(clock)

\* t + 5 on a float
AddSeconds(t, s) == [sec |-> t.sec + s, half |-> t.half]

\* int() of a float truncates toward zero
IntOfFloat(t) == IF t.sec < 0 /\ t.half > 0 THEN t.sec + 1 ELSE t.sec

Expires_RoundUp(now) == now.sec + now.half + ExpiryWindow

Expires(now) == IntOfFloat(AddSeconds(now, ExpiryWindow))

(* --------------------------- endpoint table --------------------------- *)

\* A function name is kept as its "_"-separated parts.
_ENDPOINTS == <<
    [name |-> <<"trade", "bucketed", "GET">>, endpoint |-> "/trade/bucketed"],
    [name |-> <<"user", "wallet", "GET">>,    endpoint |-> "/user/wallet"],
    [name |-> <<"position", "GET">>,          endpoint |-> "/position"],
    [name |-> <<"instrument", "GET">>,        endpoint |-> "/instrument"],
    [name |-> <<"order", "POST">>,            endpoint |-> "/order"],
    [name |-> <<"order", "bulk", "POST">>,    endpoint |-> "/order/bulk"],
    [name |-> <<"order", "all", "DELETE">>,   endpoint |-> "/order/all"] >>

FuncNames == {_ENDPOINTS[i].name : i \in 1 .. Len(_ENDPOINTS)}

BASE_URL ==
    IF config_test
    THEN [host |-> "https://testnet.bitmex.com", path |-> "/api/v1"]
    ELSE [host |-> "https://www.bitmex.com", path |-> "/api/v1"]

\* re.compile(r"(GET|POST|PUT|DELETE)$").finditer(func_name): the loop
\* leaves verb at the last match, or at its previous value without a match
VerbMatch(func_name, prev) ==
    IF func_name[Len(func_name)] \in HttpVerbs
    THEN func_name[Len(func_name)]
    ELSE prev

_create_func_LateBinding(funcs, func_name, endpoint, verb) ==
    [n \in (DOMAIN funcs) \cup {func_name} |-> [endpoint |-> endpoint, verb |-> verb]]

\* _create_func: the closure keeps its own endpoint and verb
_create_func(funcs, func_name, endpoint, verb) ==
    [n \in (DOMAIN funcs) \cup {func_name} |->
        IF n = func_name THEN [endpoint |-> endpoint, verb |-> verb]
        ELSE funcs[n]]

\* the loop of __init__ over _ENDPOINTS.keys(), from entry i on
RECURSIVE CreateFuncs(_, _, _)
CreateFuncs(funcs, i, prev) ==
    IF i > Len(_ENDPOINTS) THEN funcs
    ELSE LET verb == VerbMatch(_ENDPOINTS[i].name, prev)
         IN  CreateFuncs(
                 _create_func(funcs, _ENDPOINTS[i].name,
                              _ENDPOINTS[i].endpoint, verb),
                 i + 1, verb)

(* ------------------------- request preparation ------------------------ *)

\* A keyword argument value: None, an int, or a str kept as its pieces
\* (runs of unreserved characters, or single reserved characters).
NoneV == [t |-> "none"]
IntV(i) == [t |-> "int", i |-> i]
StrV(s) == [t |-> "str", s |-> s]
BoolV(b) == [t |-> "bool", b |-> b]

\* urllib.parse.quote_plus on one piece of a str
QuotePiece(p) ==
    CASE p = " " -> "+"
      [] p = "[" -> "%5B"
      [] p = "]" -> "%5D"
      [] p = ":" -> "%3A"
      [] p = "," -> "%2C"
      [] p = "{" -> "%7B"
      [] p = "}" -> "%7D"
      [] p = "\"" -> "%22"
      [] OTHER -> p

\* quote_plus of a str: its pieces quoted one by one and joined
QuotePlus(s) ==
    LET quoted[r \in (0 .. Len(s)) \X (0 .. Len(s))] ==
            IF r[1] > r[2] THEN ""
            ELSE IF r[1] = r[2] THEN QuotePiece(s[r[1]])
            ELSE quoted[<<r[1], (r[1] + r[2]) \div 2>>]
                     \o quoted[<<(r[1] + r[2]) \div 2 + 1, r[2]>>]
    IN  quoted[<<1, Len(s)>>]

\* the text urlencode gives one value
ValueText(v) ==
    IF v.t = "int" THEN Str(v.i)
    ELSE IF v.t = "bool" THEN (IF v.b THEN "True" ELSE "False")
    ELSE QuotePlus(v.s)

\* requests' _encode_params: items whose value is None are dropped, the
\* others become key=value joined with "&", in the order of the dict
RECURSIVE EncodeParams(_)
EncodeParams(params) ==
    IF params = <<>> THEN ""
    ELSE LET p == Head(params)
             rest == EncodeParams(Tail(params))
         IN  IF p.v.t = "none" THEN rest
             ELSE p.k \o "=" \o ValueText(p.v)
                  \o (IF rest = "" THEN "" ELSE "&" \o rest)

\* the URL as the transport serialises it
UrlString(u) == u.host \o u.path \o (IF u.query = "" THEN "" ELSE "?" \o u.query)

\* urlparse(url): the path and the query of the URL
urlparse(u) == [path |-> u.path, query |-> u.query]

\* headers of a new session, after headers.update({"Accept": ...})
SessionHeaders ==
    [h \in {"User-Agent", "Accept-Encoding", "Accept", "Connection"} |->
        CASE h = "User-Agent" -> "python-requests"
          [] h = "Accept-Encoding" -> "gzip, deflate"
          [] h = "Accept" -> "application/json"
          [] h = "Connection" -> "keep-alive"]

\* dict.update with one item
HeadersUpdate(headers, name, value) ==
    [h \in (DOMAIN headers) \cup {name} |-> IF h = name THEN value ELSE headers[h]]

PrepareRequest_BodyForMutating(verb, base, endpoint, params) ==
    IF verb = "GET"
    THEN [method |-> verb,
          url |-> [host |-> base.host, path |-> base.path \o endpoint,
                   query |-> EncodeParams(params)],
          body |-> None, headers |-> SessionHeaders]
    ELSE [method |-> verb,
          url |-> [host |-> base.host, path |-> base.path \o endpoint, query |-> ""],
          body |-> EncodeParams(params),
          headers |-> HeadersUpdate(SessionHeaders, "Content-Length", "0")]

\* Request(method=verb, url=url, params=params) and session.prepare_request:
\* params always go to the query string and there is no body
PrepareRequest(verb, base, endpoint, params) ==
    LET headers == IF verb \in {"GET", "HEAD"} THEN SessionHeaders
                   ELSE HeadersUpdate(SessionHeaders, "Content-Length", "0")
    IN  [method  |-> verb,
         url     |-> [host |-> base.host, path |-> base.path \o endpoint,
                      query |-> EncodeParams(params)],
         body    |-> None,
         headers |-> headers]

(* ------------------------------- signing ------------------------------ *)

\* hmac.new(key, msg, sha256).hexdigest()
HmacSha256Hex(key, msg) == [alg |-> "HMAC-SHA256", key |-> key, msg |-> msg]

SignedPath_AlwaysJoin(url) == urlparse(url).path \o "?" \o urlparse(url).query

\* path = "?".join([path, query]) if query else path
SignedPath(url) ==
    LET parsed_url == urlparse(url)
    IN  IF parsed_url.query # "" THEN parsed_url.path \o "?" \o parsed_url.query
        ELSE parsed_url.path

Message_NoExpires(verb, path, expires, data) == verb \o path \o data

\* message = verb + path + str(expires) + data
Message(verb, path, expires, data) == verb \o path \o Str(expires) \o data

NotSigned == [signed |-> FALSE]

SignatureOf_PathOnly(prepped, api_secret, now) ==
    LET message == Message(prepped.method, prepped.url.path, Expires(now), "")
    IN  [signed |-> TRUE, verb |-> prepped.method, path |-> prepped.url.path,
         expires |-> Expires(now), data |-> "", message |-> message, now |-> now,
         signature |-> HmacSha256Hex(api_secret, message)]

\* the values _set_auth_headers computes from the prepared request
SignatureOf(prepped, api_secret, now) ==
    LET verb == prepped.method
        path == SignedPath(prepped.url)
        expires == Expires(now)
        data == IF Truthy(prepped.body) THEN prepped.body ELSE ""
        message == Message(verb, path, expires, data)
    IN  [signed |-> TRUE, verb |-> verb, path |-> path, expires |-> expires,
         data |-> data, message |-> message, now |-> now,
         signature |-> HmacSha256Hex(api_secret, message)]

_set_auth_headers_StaleExpires(prepped, api_key, sig) ==
    [prepped EXCEPT !.headers =
        HeadersUpdate(
            HeadersUpdate(
                HeadersUpdate(prepped.headers, "api-key", api_key),
                "api-expires", Str(sig.now.sec)),
            "api-signature", sig.signature)]

\* the three prepped.headers.update calls
_set_auth_headers(prepped, api_key, sig) ==
    [prepped EXCEPT !.headers =
        HeadersUpdate(
            HeadersUpdate(
                HeadersUpdate(prepped.headers, "api-key", api_key),
                "api-expires", Str(sig.expires)),
            "api-signature", sig.signature)]

(* --------------------------- response handling ------------------------ *)

RateLimitHeaders == <<"x-ratelimit-limit", "x-ratelimit-remaining", "x-ratelimit-reset">>

\* The text of a response: a JSON array of objects, a JSON object, or text
\* that is not JSON.
JsonArray(items) == [kind |-> "array", items |-> items]
JsonObject == [kind |-> "object", items |-> <<>>]
NotJson == [kind |-> "invalid", items |-> <<>>]

Error(exc) == [kind |-> "error", exc |-> exc, items |-> <<>>]
Envelope(items) == [kind |-> "list", exc |-> None, items |-> items]

_handle_response_Partial(response_object) ==
    LET text == response_object.text
    IN  IF text.kind = "invalid" THEN Error("JSONDecodeError")
        ELSE IF text.kind = "object" THEN Error("ValueError")
        ELSE Envelope(text.items)

_handle_response_Prepend(response_object) ==
    LET text == response_object.text
        headers == response_object.headers
    IN  IF text.kind = "invalid" THEN Error("JSONDecodeError")
        ELSE IF \E i \in 1 .. 3 : RateLimitHeaders[i] \notin DOMAIN headers
        THEN Error("KeyError")
        ELSE IF text.kind = "object" THEN Error("ValueError")
        ELSE Envelope(<<[ratelimit |->
                           [limit     |-> headers["x-ratelimit-limit"],
                            remaining |-> headers["x-ratelimit-remaining"],
                            reset     |-> headers["x-ratelimit-reset"]]]>>
                      \o text.items)

\* _handle_response: json.loads, then the three header lookups in order, then
\* dict(item) for each item and the appended ratelimit record; any exception
\* is caught and returned
_handle_response(response_object) ==
    LET text == response_object.text
        headers == response_object.headers
    IN  IF text.kind = "invalid" THEN Error("JSONDecodeError")
        ELSE IF \E i \in 1 .. 3 : RateLimitHeaders[i] \notin DOMAIN headers
        THEN Error("KeyError")
        ELSE IF text.kind = "object" THEN Error("ValueError")
        ELSE LET ratelimit ==
                     [ratelimit |->
                         [limit     |-> headers["x-ratelimit-limit"],
                          remaining |-> headers["x-ratelimit-remaining"],
                          reset     |-> headers["x-ratelimit-reset"]]]
             IN  Envelope(Append(text.items, ratelimit))

(* ---------------------------- cached transport ------------------------ *)

\* requests_cache create_key: method, URL and body hashed together
CacheKey(prepped) ==
    prepped.method \o UrlString(prepped.url)
        \o (IF Truthy(prepped.body) THEN prepped.body ELSE "")

AllowableMethods == {"GET", "POST", "PUT", "DELETE"}

AllowableCodes == {200}

\* the cache cch after session.send: a response fetched from the exchange is
\* saved when its status is an allowable code
CacheAfterSend(cch, prepped, response) ==
    IF prepped.method \in AllowableMethods /\ response.status_code \in AllowableCodes
    THEN [k \in (DOMAIN cch) \cup {CacheKey(prepped)} |->
             IF k = CacheKey(prepped) THEN response ELSE cch[k]]
    ELSE cch

CacheHit(cch, prepped) ==
    prepped.method \in AllowableMethods /\ CacheKey(prepped) \in DOMAIN cch

(* ------------------------------- actions ------------------------------ *)

SigningRequested_Always(self) == TRUE

SigningRequested_Both(self) == Truthy(self.api_key) /\ Truthy(self.api_secret)

\* if self.api_key:
SigningRequested(self) == Truthy(self.api_key)

NoRequest == [method |-> None]
NoResponse == [status_code |-> 0]
NoResult == [kind |-> "none", exc |-> None, items |-> <<>>]
Unconstructed == [constructed |-> FALSE]

NoFacade == [constructed |-> FALSE]

\* what a method of the facade gives: a value, or the exception it raises
Return(v) == [raised |-> None, value |-> v]
Raise(exc) == [raised |-> exc, value |-> NoneV]

NoOp ==
    [n |-> 0, name |-> None, args |-> <<>>, requests |-> <<>>, built |-> 0,
     raised |-> None, value |-> NoneV, exited |-> FALSE]

\* no schedule helper is running
NotWaiting == [helper |-> None, target |-> 0, pc |-> "idle", read |-> -1]

NoCall ==
    [client |-> 0, func |-> <<>>, kwargs |-> <<>>, endpoint |-> None,
     verb |-> None, session |-> 0, prepared |-> NoRequest,
     sig |-> NotSigned, sent |-> NoRequest, from_cache |-> FALSE,
     attempts |-> 0, response |-> NoResponse, raised |-> None,
     result |-> NoResult]

Init ==
    /\ config_test = FALSE   \* live is the default
    /\ clients = [c \in ClientIds |-> Unconstructed]
    /\ classFuncs = << >>
    /\ nsessions = 0
    /\ cache = << >>
    /\ clock = 0
    /\ nwire = 0
    /\ ncalls = 0
    /\ call = NoCall
    /\ facade = NoFacade
    /\ op = NoOp
    /\ wall = [field \in {"hour", "minute", "second"} |-> 0]
    /\ wait = NotWaiting

\* BitMEX(api_key, api_secret)
Construct(c, api_key, api_secret) ==
    /\ ~clients[c].constructed
    /\ \A d \in ClientIds : d < c => clients[d].constructed
    /\ clients' = [clients EXCEPT ![c] =
            [constructed |-> TRUE, api_key |-> api_key,
             api_secret |-> api_secret, session |-> 0]]
    /\ classFuncs' = CreateFuncs(classFuncs, 1, None)
    /\ UNCHANGED <<config_test, nsessions, cache, clock, nwire, ncalls, call,
                   facade, op, wall, wait>>

\* the wall clock advances by half a second
Tick ==
    /\ clock < MaxClock
    /\ clock' = clock + 1
    /\ UNCHANGED <<config_test, clients, classFuncs, nsessions, cache, nwire,
                   ncalls, call, facade, op, wall, wait>>

\* self.BASE_URL: the attribute of the object if it has one, else of the class
BaseUrlOf(self) == IF "BASE_URL" \in DOMAIN self THEN self.BASE_URL ELSE BASE_URL

Receiver_LastConstructed(cl, c) ==
    CHOOSE d \in DOMAIN cl :
        cl[d].constructed /\ \A e \in DOMAIN cl : cl[e].constructed => e <= d

\* the self that _endpoint_request receives: the function is an attribute of
\* the class, so self is the object the operation is called on
Receiver(cl, c) == c

EnsureSession_EveryCall(self, nsess) == nsess + 1

\* if not self.session: self.session = CachedSession(...)
EnsureSession(self, nsess) == IF self.session = 0 THEN nsess + 1 ELSE self.session

SendFailed_Returned(trace, prepped) ==
    [trace EXCEPT !.sent = prepped, !.attempts = 1,
                  !.result = Error("ConnectionError")]

SendFailed_RetryOnce(trace, prepped) ==
    [trace EXCEPT !.sent = prepped, !.attempts = 2, !.raised = "ConnectionError"]

\* session.send(prepped) when the request cannot be transmitted: it is
\* called once, it raises, and nothing in _request catches the exception
SendFailed(trace, prepped) ==
    [trace EXCEPT !.sent = prepped, !.attempts = 1, !.raised = "ConnectionError"]

\* _endpoint_request and _request on the client object self, called as client
\* c, with the operations funcs of the class, the cache cch and nsess
\* sessions constructed before.  env is what the network does if the request
\* is transmitted.
_request(c, self, funcs, func_name, kwargs, env, cch, nsess) ==
    LET endpoint == funcs[func_name].endpoint
        verb == funcs[func_name].verb
        session == EnsureSession(self, nsess)
        prepared == PrepareRequest(verb, BaseUrlOf(self), endpoint, kwargs)
        signing == SigningRequested(self)
        nosecret == signing /\ self.api_secret = None
        sig == IF signing /\ ~nosecret
               THEN SignatureOf(prepared, self.api_secret, time)
               ELSE NotSigned
        prepped == IF sig.signed
                   THEN _set_auth_headers(prepared, self.api_key, sig)
                   ELSE prepared
        hit == CacheHit(cch, prepped)
        response == IF hit THEN cch[CacheKey(prepped)] ELSE env.response
        trace == [client |-> c, func |-> func_name, kwargs |-> kwargs,
                  endpoint |-> endpoint, verb |-> verb, session |-> session,
                  prepared |-> prepared, sig |-> sig, sent |-> NoRequest,
                  from_cache |-> FALSE, attempts |-> 0,
                  response |-> NoResponse, raised |-> None,
                  result |-> NoResult]
        nsessions_ == IF session > nsess THEN session ELSE nsess
    IN  IF nosecret
        THEN \* self.api_secret.encode: None has no attribute encode
             [trace |-> [trace EXCEPT !.raised = "AttributeError"],
              cache |-> cch, nsessions |-> nsessions_]
        ELSE IF hit
        THEN [trace |-> [trace EXCEPT !.sent = prepped, !.from_cache = TRUE,
                                      !.response = response,
                                      !.result = _handle_response(response)],
              cache |-> cch, nsessions |-> nsessions_]
        ELSE IF env.fail
        THEN [trace |-> SendFailed(trace, prepped),
              cache |-> cch, nsessions |-> nsessions_]
        ELSE [trace |-> [trace EXCEPT !.sent = prepped, !.attempts = 1,
                                      !.response = response,
                                      !.result = _handle_response(response)],
              cache |-> CacheAfterSend(cch, prepped, response),
              nsessions |-> nsessions_]

\* getattr(client, func_name)(**kwargs), while fewer than limit calls were made
Request(limit, c, func_name, kwargs, env) ==
    /\ ncalls < limit
    /\ clients[c].constructed
    /\ func_name \in DOMAIN classFuncs
    /\ LET r == Receiver(clients, c)
           out == _request(c, clients[r], classFuncs, func_name, kwargs, env,
                           cache, nsessions)
       IN  /\ clients' = [clients EXCEPT ![r].session = out.trace.session]
           /\ nsessions' = out.nsessions
           /\ ncalls' = ncalls + 1
           /\ call' = out.trace
           /\ cache' = out.cache
           /\ nwire' = nwire + out.trace.attempts
    /\ UNCHANGED <<config_test, classFuncs, clock, facade, op, wall, wait>>

(* ------------------------------- facade ------------------------------- *)

\* __init__ of BitMEXFunctions and of BitMEXData: the arguments are kept
FacadeInit(cls, api_key, api_secret, max_retries, retry_time, test) ==
    /\ ~facade.constructed
    /\ facade' = [constructed |-> TRUE, cls |-> cls, api_key |-> api_key,
                  api_secret |-> api_secret, max_retries |-> max_retries,
                  retry_time |-> retry_time, request_timeout |-> 10,
                  test |-> test]
    /\ UNCHANGED <<config_test, clients, classFuncs, nsessions, cache, clock,
                   nwire, ncalls, call, op, wall, wait>>

\* init_request: a new client object with the credentials of the facade and
\* BASE_URL set on the object.  The facade imports the name BitMEX from the
\* cryptowrapper package and hands its constructor max_retries, retry_time
\* and request_timeout as well; the client is the one of bitmex_request.py,
\* which keeps none of the three.
init_request(self) ==
    [constructed |-> TRUE, api_key |-> self.api_key,
     api_secret |-> self.api_secret, session |-> 0,
     BASE_URL |-> IF self.test = TRUE
                  THEN [host |-> "https://testnet.bitmex.com", path |-> "/api/v1"]
                  ELSE [host |-> "https://www.bitmex.com", path |-> "/api/v1"]]

\* bitmex = self.init_request() and then bitmex.func_name(**kwargs)
ClientCall(self, func_name, kwargs, env, cch, nsess) ==
    _request(0, init_request(self), CreateFuncs(classFuncs, 1, None),
             func_name, kwargs, env, cch, nsess)

\* a Python float kept as the fraction n / d
FloatV(n, d) == [t |-> "float", n |-> n, d |-> d]

\* a < b on floats
FloatLess(a, b) == a.n * b.d < b.n * a.d

\* v[key] with a str key, v being what an operation of the client returned:
\* a dict gives the value of the key, a list takes integer indices only and
\* an exception takes none
SubscriptStr(v, key) ==
    IF v.kind = "dict"
    THEN IF key \in DOMAIN v.items THEN Return(IntV(v.items[key]))
         ELSE Raise("KeyError")
    ELSE Raise("TypeError")

\* v[0]: the first record of a list; an exception takes no index
SubscriptFirst(v) ==
    IF v.kind = "list"
    THEN IF v.items # <<>> THEN Return(v.items[1]) ELSE Raise("IndexError")
    ELSE Raise("TypeError")

\* what a method of the facade did: the request calls it made one after the
\* other, how it ended, and whether it ended the process
Done(outs, ret) == [outs |-> outs, ret |-> ret, exited |-> FALSE]

\* what a method makes of the request call out when the call returned
Returned(out, ret) ==
    Done(<<out>>, IF out.trace.raised # None THEN Raise(out.trace.raised) ELSE ret)

\* ['amount'] / 100000000 on what user_wallet_GET returned
Balance(amount) ==
    IF amount.raised # None THEN amount
    ELSE Return(FloatV(amount.value.i, 100000000))

\* balance = bitmex.user_wallet_GET()['amount'] / 100000000
BalanceOf(out) == Returned(out, Balance(SubscriptStr(out.trace.result, "amount")))

get_balance(self, env, cch, nsess) ==
    BalanceOf(ClientCall(self, <<"user", "wallet", "GET">>, <<>>, env, cch, nsess))

\* ['currentQty'] on the first record
CurrentQty(first) ==
    IF first.raised # None THEN first
    ELSE IF "currentQty" \in DOMAIN first.value
    THEN Return(IntV(first.value.currentQty))
    ELSE Raise("KeyError")

\* open_qty = bitmex.position_GET()[0]['currentQty']
OpenQtyOf(out) == Returned(out, CurrentQty(SubscriptFirst(out.trace.result)))

get_position(self, env, cch, nsess) ==
    OpenQtyOf(ClientCall(self, <<"position", "GET">>, <<>>, env, cch, nsess))

\* for contract in response: if contract['symbol'] == symbol: return
\* contract['lastPrice']; after the loop raise ValueError
RECURSIVE FindContract(_, _)
FindContract(response, symbol) ==
    IF response = <<>> THEN Raise("ValueError")
    ELSE LET contract == Head(response)
         IN  IF "symbol" \notin DOMAIN contract THEN Raise("KeyError")
             ELSE IF contract.symbol = symbol
             THEN IF "lastPrice" \in DOMAIN contract
                  THEN Return(IntV(contract.lastPrice))
                  ELSE Raise("KeyError")
             ELSE FindContract(Tail(response), symbol)

\* the loop of get_price over what instrument_GET returned; an exception
\* cannot be iterated
PriceOf(out, symbol) ==
    Returned(out, IF out.trace.result.kind # "list" THEN Raise("TypeError")
                  ELSE FindContract(out.trace.result.items, symbol))

get_price(self, symbol, env, cch, nsess) ==
    PriceOf(ClientCall(self, <<"instrument", "GET">>, <<>>, env, cch, nsess), symbol)

\* a method that returns what the operation of the client returned
Forwarded(out) == Returned(out, Return(out.trace.result))

\* bitmex.order_POST(symbol=symbol, orderQty=qty, type='Market')
market_order(self, symbol, qty, env, cch, nsess) ==
    Forwarded(ClientCall(self, <<"order", "POST">>,
                  << [k |-> "symbol", v |-> symbol], [k |-> "orderQty", v |-> IntV(qty)],
                     [k |-> "type", v |-> StrV(<<"Market">>)] >>,
                  env, cch, nsess))

\* bitmex.order_POST(symbol=symbol, orderQty=qty, price=price, type='Limit')
limit_order(self, symbol, qty, price, env, cch, nsess) ==
    Forwarded(ClientCall(self, <<"order", "POST">>,
                  << [k |-> "symbol", v |-> symbol], [k |-> "orderQty", v |-> IntV(qty)],
                     [k |-> "price", v |-> price],
                     [k |-> "type", v |-> StrV(<<"Limit">>)] >>,
                  env, cch, nsess))

\* json.dumps of a str, kept as pieces
JsonStr(s) == <<"\"", s, "\"">>

\* json.dumps of one item of a dict
JsonItem(key, text) == JsonStr(key) \o <<":", " ">> \o text

\* json.dumps of price * (1 + ((offset / 100) * k)), a float: its decimal
\* text, for the prices and offsets whose product is a whole number
FloatText(price, offset, k) ==
    <<Str((price * (100 + offset * k)) \div 100) \o ".0">>

\* json.dumps of order k of the ten: the first has the price as it was given
BulkOrder(symbol, qty, price, offset, k) ==
    <<"{">> \o JsonItem("symbol", JsonStr(symbol)) \o <<",", " ">>
        \o JsonItem("orderQty", <<Str(qty)>>) \o <<",", " ">>
        \o JsonItem("price", IF k = 0 THEN <<Str(price)>>
                             ELSE FloatText(price, offset, k)) \o <<",", " ">>
        \o JsonItem("type", JsonStr("Limit")) \o <<"}">>

RECURSIVE BulkOrders(_, _, _, _, _)
BulkOrders(symbol, qty, price, offset, k) ==
    IF k = 9 THEN BulkOrder(symbol, qty, price, offset, k)
    ELSE BulkOrder(symbol, qty, price, offset, k) \o <<",", " ">>
             \o BulkOrders(symbol, qty, price, offset, k + 1)

\* bitmex.order_bulk_POST(orders=json.dumps([...ten orders...]))
bulk_order(self, symbol, qty, price, offset, env, cch, nsess) ==
    Forwarded(ClientCall(self, <<"order", "bulk", "POST">>,
                  << [k |-> "orders",
                      v |-> StrV(<<"[">> \o BulkOrders(symbol, qty, price, offset, 0)
                                     \o <<"]">>)] >>,
                  env, cch, nsess))

\* bitmex.order_POST(symbol=symbol, execInst='Close')
close(self, symbol, env, cch, nsess) ==
    Forwarded(ClientCall(self, <<"order", "POST">>,
                  << [k |-> "symbol", v |-> symbol],
                     [k |-> "execInst", v |-> StrV(<<"Close">>)] >>,
                  env, cch, nsess))

cancel_orders_AsClose(self, env, cch, nsess) == close(self, NoneV, env, cch, nsess)

\* bitmex.order_all_DELETE()
cancel_orders(self, env, cch, nsess) ==
    Forwarded(ClientCall(self, <<"order", "all", "DELETE">>, <<>>, env, cch, nsess))

\* config.fail_safe_amount, in BTC
fail_safe_amount == FloatV(1, 1)

\* sys.exit after cancel_orders()
AfterCancel(balance, closed, cancelled) ==
    IF cancelled.ret.raised # None
    THEN Done(balance.outs \o closed.outs \o cancelled.outs, cancelled.ret)
    ELSE [outs |-> balance.outs \o closed.outs \o cancelled.outs,
          ret |-> Raise("SystemExit"), exited |-> TRUE]

\* self.cancel_orders() after self.close()
AfterClose(self, balance, closed, env_cancel) ==
    IF closed.ret.raised # None
    THEN Done(balance.outs \o closed.outs, closed.ret)
    ELSE AfterCancel(balance, closed,
             cancel_orders(self, env_cancel, closed.outs[1].cache,
                           closed.outs[1].nsessions))

\* if balance < config.fail_safe_amount: self.close() ...; an exception of
\* get_balance ends the method
AfterBalance(self, balance, env_close, env_cancel) ==
    IF balance.ret.raised # None THEN balance
    ELSE IF FloatLess(balance.ret.value, fail_safe_amount)
    THEN AfterClose(self, balance,
             close(self, NoneV, env_close, balance.outs[1].cache,
                   balance.outs[1].nsessions),
             env_cancel)
    ELSE Done(balance.outs, Return(NoneV))

\* balance_update: get_balance and the failsafe
balance_update(self, env, env_close, env_cancel, cch, nsess) ==
    AfterBalance(self, get_balance(self, env, cch, nsess), env_close, env_cancel)

(* ----------------------------- data facade --------------------------- *)

supported_timeframes == {"1m", "5m", "1h", "1d"}

\* ta.get_functions(): some of the names TA-Lib gives
supported_indicators ==
    {"BBANDS", "EMA", "MAMA", "APO", "STOCH", "TSF", "SUM", "ROCR", "CDLHARAMICROSS"}

supported_sources == {"open", "close"}

\* the columns of the frame
header ==
    {"timestamp", "symbol", "open", "high", "low", "close", "trades", "volume",
     "vwap", "last size", "turnover", "home notional", "foreign notional"}

RECURSIVE Reversed(_)
Reversed(rows) ==
    IF rows = <<>> THEN <<>> ELSE Append(Reversed(Tail(rows)), Head(rows))

\* dropna(axis=0, thresh=10): the rows with at least 10 columns that have a value
RECURSIVE DropNa(_)
DropNa(rows) ==
    IF rows = <<>> THEN <<>>
    ELSE IF Cardinality(DOMAIN Head(rows) \cap header) >= 10
    THEN <<Head(rows)>> \o DropNa(Tail(rows))
    ELSE DropNa(Tail(rows))

\* pd.DataFrame.from_records(request, columns=header), iloc[::-1] and dropna
\* on what the operation returned: the frame as its rows, oldest first
Frame(request) ==
    IF request.kind # "list" THEN Raise("TypeError")
    ELSE Return([t |-> "frame", rows |-> DropNa(Reversed(request.items))])

\* bitmex.trade_bucketed_GET(binSize=timeframe, partial=True, symbol=symbol,
\* count=count, reverse=True)
trade_bucketed(self, symbol, timeframe, count, env, cch, nsess) ==
    ClientCall(self, <<"trade", "bucketed", "GET">>,
        << [k |-> "binSize", v |-> StrV(<<timeframe>>)],
           [k |-> "partial", v |-> BoolV(TRUE)],
           [k |-> "symbol", v |-> StrV(<<symbol>>)],
           [k |-> "count", v |-> IntV(count)],
           [k |-> "reverse", v |-> BoolV(TRUE)] >>,
        env, cch, nsess)

\* what get_ohlcv returns: the frame of what the operation returned
FrameOf(out) == Returned(out, Frame(out.trace.result))

get_ohlcv_CheckAfter(self, symbol, timeframe, instances, env, cch, nsess) ==
    IF timeframe \notin supported_timeframes
    THEN Done(<<trade_bucketed(self, symbol, timeframe, instances, env, cch, nsess)>>,
              Raise("ValueError"))
    ELSE FrameOf(trade_bucketed(self, symbol, timeframe, instances, env, cch, nsess))

\* get_ohlcv: the timeframe is checked before the client is made
get_ohlcv(self, symbol, timeframe, instances, env, cch, nsess) ==
    IF timeframe \notin supported_timeframes THEN Done(<<>>, Raise("ValueError"))
    ELSE FrameOf(trade_bucketed(self, symbol, timeframe, instances, env, cch, nsess))

\* value[-instances:] on an array
LastValues(value, instances) ==
    IF instances = 0 \/ instances >= Len(value) THEN value
    ELSE SubSeq(value, Len(value) - instances + 1, Len(value))

\* ta.func.<name>(array, ...): one value for each row, kept as the name of
\* the output and the timestamp of the row
TaFunc(output, rows) ==
    [i \in 1 .. Len(rows) |-> [output |-> output, timestamp |-> rows[i].timestamp]]

\* the chain of if indicator == ...: the arrays that the branch of the
\* indicator computes with ta.func, none for a name without a branch and for
\* a branch that computes nothing
IndicatorOutputs(indicator) ==
    CASE indicator = "BBANDS" -> <<"up", "mid", "low">>
      [] indicator = "EMA" -> <<"value">>
      [] indicator = "APO" -> <<"value">>
      [] indicator = "STOCH" -> <<"slowk", "slowd">>
      [] indicator = "TSF" -> <<"value">>
      [] indicator = "SUM" -> <<"value">>
      [] OTHER -> <<>>

\* how the branch of the indicator ends: it returns the arrays cut with
\* [-instances:], it subscripts one with -self.instances, it raises
\* NotImplementedError, or (no branch, or a branch without a return) the
\* chain goes on to the end
IndicatorEnd(indicator) ==
    CASE indicator \in {"BBANDS", "EMA", "SUM"} -> "slices"
      [] indicator \in {"STOCH", "TSF"} -> "self.instances"
      [] indicator = "MAMA" -> "NotImplementedError"
      [] OTHER -> "end"

ChainEnd_ReturnsNone(indicator) == Return(NoneV)

\* the end of the chain: if indicator == 'SUM': ... else: raise ValueError
ChainEnd(indicator) == Raise("ValueError")

\* the chain of indicators on the frame.  The facade has no attribute
\* instances, so reading self.instances raises AttributeError.
Indicator(data, indicator, instances) ==
    IF data.raised # None THEN data
    ELSE IF IndicatorEnd(indicator) = "slices"
    THEN Return([t |-> "arrays",
                 arrays |-> [i \in 1 .. Len(IndicatorOutputs(indicator)) |->
                     LastValues(TaFunc(IndicatorOutputs(indicator)[i],
                                       data.value.rows), instances)]])
    ELSE IF IndicatorEnd(indicator) = "self.instances"
    THEN Raise("AttributeError")
    ELSE IF IndicatorEnd(indicator) = "NotImplementedError"
    THEN Raise("NotImplementedError")
    ELSE ChainEnd(indicator)

IndicatorOf(out, indicator, instances) ==
    Returned(out, Indicator(Frame(out.trace.result), indicator, instances))

\* get_indicator: the three checks before the client is made, the request,
\* the frame, and the chain of indicators
get_indicator(self, symbol, timeframe, indicator, period, source, instances, env, cch, nsess) ==
    IF timeframe \notin supported_timeframes THEN Done(<<>>, Raise("ValueError"))
    ELSE IF indicator \notin supported_indicators THEN Done(<<>>, Raise("ValueError"))
    ELSE IF source \notin supported_sources THEN Done(<<>>, Raise("ValueError"))
    ELSE IndicatorOf(trade_bucketed(self, symbol, timeframe, instances + period,
                                    env, cch, nsess),
                     indicator, instances)

RECURSIVE Attempts(_)
Attempts(outs) ==
    IF outs = <<>> THEN 0 ELSE Head(outs).trace.attempts + Attempts(Tail(outs))

\* a method of the facade of class cls can be called, while fewer than limit
\* methods were called and the process has not exited
Within(limit, cls) ==
    /\ facade.constructed /\ facade.cls = cls
    /\ op.n < limit /\ ~op.exited

Ready(cls) == Within(MaxOps, cls)

\* The state after a call of a method of the facade, which did r: every
\* request call of it was made on a client object of its own.
Call(name, args, r) ==
    /\ op' = [n |-> op.n + 1, name |-> name, args |-> args,
              requests |-> [i \in 1 .. Len(r.outs) |-> r.outs[i].trace],
              built |-> Len(r.outs), raised |-> r.ret.raised,
              value |-> r.ret.value, exited |-> r.exited]
    /\ cache' = IF r.outs = <<>> THEN cache ELSE r.outs[Len(r.outs)].cache
    /\ nsessions' = IF r.outs = <<>> THEN nsessions
                    ELSE r.outs[Len(r.outs)].nsessions
    /\ nwire' = nwire + Attempts(r.outs)
    /\ classFuncs' = IF r.outs = <<>> THEN classFuncs
                     ELSE CreateFuncs(classFuncs, 1, None)
    /\ UNCHANGED <<config_test, clients, clock, ncalls, call, facade, wall, wait>>

GetBalance(env) ==
    /\ Ready("BitMEXFunctions")
    /\ \E r \in {get_balance(facade, env, cache, nsessions)} :
           Call("get_balance", <<>>, r)

GetPosition(env) ==
    /\ Ready("BitMEXFunctions")
    /\ \E r \in {get_position(facade, env, cache, nsessions)} :
           Call("get_position", <<>>, r)

GetPrice(symbol, env) ==
    /\ Ready("BitMEXFunctions")
    /\ \E r \in {get_price(facade, symbol, env, cache, nsessions)} :
           Call("get_price", <<symbol>>, r)

MarketOrder(symbol, qty, env) ==
    /\ Ready("BitMEXFunctions")
    /\ \E r \in {market_order(facade, StrV(<<symbol>>), qty, env, cache, nsessions)} :
           Call("market_order", <<symbol, qty>>, r)

LimitOrder(symbol, qty, price, env) ==
    /\ Ready("BitMEXFunctions")
    /\ \E r \in {limit_order(facade, StrV(<<symbol>>), qty, IntV(price), env,
                             cache, nsessions)} :
           Call("limit_order", <<symbol, qty, price>>, r)

BulkOrder10(symbol, qty, price, offset, env) ==
    /\ Ready("BitMEXFunctions")
    /\ \E r \in {bulk_order(facade, symbol, qty, price, offset, env, cache,
                            nsessions)} :
           Call("bulk_order", <<symbol, qty, price, offset>>, r)

Close(symbol, env) ==
    /\ Ready("BitMEXFunctions")
    /\ \E r \in {close(facade, StrV(<<symbol>>), env, cache, nsessions)} :
           Call("close", <<symbol>>, r)

CancelOrders(env) ==
    /\ Ready("BitMEXFunctions")
    /\ \E r \in {cancel_orders(facade, env, cache, nsessions)} :
           Call("cancel_orders", <<>>, r)

BalanceUpdate(env, env_close, env_cancel) ==
    /\ Ready("BitMEXFunctions")
    /\ \E r \in {balance_update(facade, env, env_close, env_cancel, cache,
                                nsessions)} :
           Call("balance_update", <<>>, r)

GetOhlcv(symbol, timeframe, instances, env) ==
    /\ Ready("BitMEXData")
    /\ \E r \in {get_ohlcv(facade, symbol, timeframe, instances, env, cache,
                           nsessions)} :
           Call("get_ohlcv",
                [symbol |-> symbol, timeframe |-> timeframe,
                 instances |-> instances], r)

GetIndicator(symbol, timeframe, indicator, period, source, instances, env) ==
    /\ Ready("BitMEXData")
    /\ \E r \in {get_indicator(facade, symbol, timeframe, indicator, period,
                               source, instances, env, cache, nsessions)} :
           Call("get_indicator",
                [symbol |-> symbol, timeframe |-> timeframe,
                 indicator |-> indicator, period |-> period, source |-> source,
                 instances |-> instances], r)

(* --------------------------- schedule helpers ------------------------- *)

\* the helpers of TradeFunctions, named as the field of datetime.now() each reads
Helpers == {"hour", "minute", "second"}

\* the values of the field: 0-23 for the hour, 0-59 for the minute and the second
FieldRange(field) == IF field = "hour" THEN 0 .. 23 ELSE 0 .. 59

\* hour(hr), minute(minute) or second(sec) is called: it enters while True
Schedule(helper, target) ==
    /\ wait.pc = "idle"
    /\ wait' = [helper |-> helper, target |-> target, pc |-> "read", read |-> -1]
    /\ UNCHANGED <<config_test, clients, classFuncs, nsessions, cache, clock,
                   nwire, ncalls, call, facade, op, wall>>

\* if datetime.now().<field> == target: break; the helper returns after the
\* break, and goes to time.sleep(0.5) otherwise.  The value read lives in the
\* comparison only; it is kept with the helper when the helper returns.
Poll ==
    /\ wait.pc = "read"
    /\ wait' = IF wall[wait.helper] = wait.target
                 THEN [wait EXCEPT !.read = wall[wait.helper], !.pc = "returned"]
                 ELSE [wait EXCEPT !.pc = "sleep"]
    /\ UNCHANGED <<config_test, clients, classFuncs, nsessions, cache, clock,
                   nwire, ncalls, call, facade, op, wall>>

\* time.sleep(0.5) ends, half a second after it began or any time later, and
\* the loop begins again
Wake ==
    /\ wait.pc = "sleep"
    /\ wait' = [wait EXCEPT !.pc = "read"]
    /\ UNCHANGED <<config_test, clients, classFuncs, nsessions, cache, clock,
                   nwire, ncalls, call, facade, op, wall>>

\* the local clock goes on while a helper runs: the field that the helper
\* reads takes its next value, 0 after the last one
Advance ==
    /\ wait.pc \in {"read", "sleep"}
    /\ wall' = [wall EXCEPT ![wait.helper] =
                    (@ + 1) % Cardinality(FieldRange(wait.helper))]
    /\ UNCHANGED <<config_test, clients, classFuncs, nsessions, cache, clock,
                   nwire, ncalls, call, facade, op, wait>>

(* -------------------------------- inputs ------------------------------ *)

\* (api_key, api_secret) of the two accounts
Accounts ==
    { <<"Acct_1_Key", "Acct_1_Secret">>, <<"Acct_2_Key", "Acct_2_Secret">> }

\* (api_key, api_secret) pairs with and without each part
Credentials ==
    { <<None, None>>,
      <<"Acct_1_Key", "Acct_1_Secret">>,
      <<"Acct_1_Key", None>>,
      <<None, "Acct_1_Secret">> }

Kw(k, v) == [k |-> k, v |-> v]

NoKwargs == << >>
SymbolKwargs == << Kw("symbol", StrV(<<"XBTUSD">>)) >>
MarketKwargs ==
    << Kw("symbol", NoneV), Kw("orderQty", IntV(10)), Kw("type", StrV(<<"Market">>)) >>
QtyKwargs(q) == << Kw("symbol", StrV(<<"XBTUSD">>)), Kw("orderQty", IntV(q)) >>
BulkKwargs == << Kw("orders", StrV(<<"[", "]">>)) >>
TimeKwargs == << Kw("startTime", StrV(<<"2020-01-01", " ", "00", ":", "00">>)) >>

\* keyword arguments tried with each operation
KwargsFor(func_name) ==
    CASE func_name = <<"order", "POST">> -> {MarketKwargs, QtyKwargs(1), QtyKwargs(11)}
      [] func_name = <<"order", "bulk", "POST">> -> {BulkKwargs}
      [] func_name = <<"order", "all", "DELETE">> -> {SymbolKwargs}
      [] func_name = <<"trade", "bucketed", "GET">> -> {TimeKwargs}
      [] func_name = <<"instrument", "GET">> -> {SymbolKwargs}
      [] OTHER -> {NoKwargs}

AllHeaders ==
    [h \in {"x-ratelimit-limit", "x-ratelimit-remaining", "x-ratelimit-reset"} |->
        CASE h = "x-ratelimit-limit" -> "60"
          [] h = "x-ratelimit-remaining" -> "59"
          [] h = "x-ratelimit-reset" -> "1700000000"]

HeadersWithout(h) == [x \in (DOMAIN AllHeaders) \ {h} |-> AllHeaders[x]]

Wallet == [amount |-> 150000000]
Instrument(symbol, lastPrice) == [symbol |-> symbol, lastPrice |-> lastPrice]

Response(status_code, text, headers) ==
    [status_code |-> status_code, text |-> text, headers |-> headers]

OkResponse == Response(200, JsonArray(<<Wallet>>), AllHeaders)

OtherHeaders ==
    [h \in {"x-ratelimit-limit", "x-ratelimit-remaining", "x-ratelimit-reset"} |->
        CASE h = "x-ratelimit-limit" -> "300"
          [] h = "x-ratelimit-remaining" -> "0"
          [] h = "x-ratelimit-reset" -> "1700000060"]

XBTUSD == Instrument("XBTUSD", 9000)
ETHUSD == Instrument("ETHUSD", 200)

\* what the exchange may answer
Responses ==
    {Response(200, JsonArray(items), headers) :
         items \in {<< >>, <<Wallet>>, <<XBTUSD, ETHUSD>>, <<ETHUSD, XBTUSD>>},
         headers \in {AllHeaders, OtherHeaders}}
    \cup {Response(200, JsonArray(<<Wallet>>), HeadersWithout(h)) : h \in DOMAIN AllHeaders}
    \cup {Response(400, JsonObject, AllHeaders),
          Response(200, NotJson, AllHeaders),
          Response(502, NotJson, << >>),
          Response(200, JsonObject, << >>)}

Delivered(response) == [fail |-> FALSE, response |-> response]
Failed == [fail |-> TRUE, response |-> NoResponse]

(* ---------------------------- specifications -------------------------- *)

\* the signing side: two accounts, every operation
ConstructAny == \E c \in ClientIds, cred \in Accounts : Construct(c, cred[1], cred[2])

RequestAny ==
    \E c \in ClientIds, func_name \in FuncNames :
        \E kwargs \in KwargsFor(func_name) :
            Request(MaxCalls, c, func_name, kwargs, Delivered(OkResponse))

\* the credential side: every kind of credentials, two operations
ConstructCredentials ==
    \E c \in ClientIds, cred \in Credentials : Construct(c, cred[1], cred[2])

RequestCredentials ==
    \E c \in ClientIds, env \in {Delivered(OkResponse), Failed} :
        \/ Request(MaxCalls, c, <<"position", "GET">>, NoKwargs, env)
        \/ Request(MaxCalls, c, <<"order", "POST">>, MarketKwargs, env)

NextCredentials == ConstructCredentials \/ Tick \/ RequestCredentials

SpecCredentials == Init /\ [][NextCredentials]_vars

\* the response side: two operations, every answer of the exchange
ConstructResponse ==
    \E c \in ClientIds, cred \in {<<None, None>>, <<"Acct_1_Key", "Acct_1_Secret">>} :
        Construct(c, cred[1], cred[2])

RequestResponse ==
    \E c \in ClientIds,
       func_name \in {<<"user", "wallet", "GET">>, <<"instrument", "GET">>},
       env \in {Delivered(r) : r \in Responses} \cup {Failed} :
        Request(MaxCalls, c, func_name, NoKwargs, env)

NextResponse == ConstructResponse \/ RequestResponse

SpecResponse == Init /\ [][NextResponse]_vars

\* the trading facade: one facade object, every method, some answers
LowWallet == [amount |-> 50000000]
Position == [currentQty |-> 5]

TradingResponses ==
    {Response(200, JsonArray(items), AllHeaders) :
         items \in {<<Wallet>>, <<LowWallet>>, <<Position>>, <<ETHUSD, XBTUSD>>,
                    <<ETHUSD>>}}
    \cup {Response(200, NotJson, AllHeaders)}

TradingEnvs == {Delivered(r) : r \in TradingResponses} \cup {Failed}

FacadeInitTrading ==
    \E cred \in {<<None, None>>, <<"Acct_1_Key", "Acct_1_Secret">>},
       retry \in {<<0, 0>>, <<3, 3>>}, test \in BOOLEAN :
        FacadeInit("BitMEXFunctions", cred[1], cred[2], retry[1], retry[2], test)

NextTrading ==
    \/ FacadeInitTrading
    \/ \E env \in TradingEnvs : GetBalance(env)
    \/ \E env \in TradingEnvs : GetPosition(env)
    \/ \E env \in TradingEnvs, symbol \in {"XBTUSD", "LTCUSD"} : GetPrice(symbol, env)
    \/ \E env \in TradingEnvs : MarketOrder("XBTUSD", 10, env)
    \/ \E env \in TradingEnvs : LimitOrder("XBTUSD", 10, 9000, env)
    \/ \E env \in TradingEnvs : BulkOrder10("XBTUSD", 10, 9000, 0, env)
    \/ \E env \in TradingEnvs : Close("XBTUSD", env)
    \/ \E env \in TradingEnvs : CancelOrders(env)
    \/ \E env \in TradingEnvs, env_close, env_cancel \in {Delivered(OkResponse), Failed} :
           BalanceUpdate(env, env_close, env_cancel)

SpecTrading == Init /\ [][NextTrading]_vars

\* the data facade: one facade object, both methods, arguments of each kind
Candle(timestamp) ==
    [timestamp |-> timestamp, symbol |-> "XBTUSD", open |-> 9000, high |-> 9100,
     low |-> 8900, close |-> 9050, trades |-> 7, volume |-> 70, vwap |-> 9010,
     lastSize |-> 1, turnover |-> 777, homeNotional |-> 1, foreignNotional |-> 1]

\* a bucket without trades: the prices only
EmptyCandle(timestamp) ==
    [timestamp |-> timestamp, symbol |-> "XBTUSD", open |-> 9000, high |-> 9000,
     low |-> 9000, close |-> 9000, trades |-> 0, volume |-> 0]

DataEnvs ==
    { Delivered(Response(200, JsonArray(<<EmptyCandle(3), Candle(2), Candle(1)>>),
                         AllHeaders)),
      Delivered(Response(200, NotJson, AllHeaders)),
      Failed }

FacadeInitData ==
    \E test \in BOOLEAN :
        FacadeInit("BitMEXData", "Acct_1_Key", "Acct_1_Secret", 3, 3, test)

NextData ==
    \/ FacadeInitData
    \/ \E timeframe \in {"1m", "2h", None}, instances \in {0, 1, 2}, env \in DataEnvs :
           GetOhlcv("XBTUSD", timeframe, instances, env)
    \/ \E timeframe \in {"1m", "2h"},
          indicator \in {"EMA", "BBANDS", "MAMA", "APO", "STOCH", "TSF", "ROCR", "VWAP"},
          period \in {0, 2}, source \in {"close", "high"}, instances \in {0, 1},
          env \in DataEnvs :
           GetIndicator("XBTUSD", timeframe, indicator, period, source, instances, env)

SpecData == Init /\ [][NextData]_vars

\* a sequence of methods on one facade object: get_balance, get_price and
\* market_order in any order, answered or not
SeqGetBalance(env) ==
    /\ Within(MaxSeqOps, "BitMEXFunctions")
    /\ \E r \in {get_balance(facade, env, cache, nsessions)} :
           Call("get_balance", <<>>, r)

SeqGetPrice(symbol, env) ==
    /\ Within(MaxSeqOps, "BitMEXFunctions")
    /\ \E r \in {get_price(facade, symbol, env, cache, nsessions)} :
           Call("get_price", <<symbol>>, r)

SeqMarketOrder(symbol, qty, env) ==
    /\ Within(MaxSeqOps, "BitMEXFunctions")
    /\ \E r \in {market_order(facade, StrV(<<symbol>>), qty, env, cache, nsessions)} :
           Call("market_order", <<symbol, qty>>, r)

SeqEnvs ==
    {Delivered(OkResponse),
     Delivered(Response(200, JsonArray(<<ETHUSD, XBTUSD>>), AllHeaders)),
     Delivered(Response(400, JsonObject, AllHeaders)),
     Failed}

FacadeInitSeq ==
    \E test \in BOOLEAN :
        FacadeInit("BitMEXFunctions", "Acct_1_Key", "Acct_1_Secret", 3, 3, test)

NextSeq ==
    \/ FacadeInitSeq
    \/ \E env \in SeqEnvs : SeqGetBalance(env)
    \/ \E env \in SeqEnvs : SeqGetPrice("XBTUSD", env)
    \/ \E env \in SeqEnvs : SeqMarketOrder("XBTUSD", 10, env)

SpecSeq == Init /\ [][NextSeq]_vars

\* the schedule helpers: each helper with every target of its range
ScheduleAny ==
    \E helper \in Helpers : \E target \in FieldRange(helper) : Schedule(helper, target)

NextSchedule == ScheduleAny \/ Poll \/ Wake \/ Advance

SpecSchedule == Init /\ [][NextSchedule]_vars

\* the clock keeps advancing and every step of the loop is taken in the end
SpecScheduleFair ==
    SpecSchedule /\ WF_vars(Advance) /\ WF_vars(Poll) /\ WF_vars(Wake)

\* the session side: two accounts, several calls on each client, answers
\* that decode, that do not, and failed transmissions
SessionEnvs ==
    {Delivered(OkResponse), Delivered(Response(200, NotJson, AllHeaders)), Failed}

RequestSession ==
    \E c \in ClientIds, env \in SessionEnvs :
        \/ Request(MaxSessionCalls, c, <<"position", "GET">>, NoKwargs, env)
        \/ Request(MaxSessionCalls, c, <<"order", "POST">>, MarketKwargs, env)

NextSession == ConstructAny \/ RequestSession

SpecSession == Init /\ [][NextSession]_vars

Next == ConstructAny \/ Tick \/ RequestAny

Spec == Init /\ [][Next]_vars

(* ------------------------------- claims ------------------------------- *)

AuthHeaders == {"api-key", "api-expires", "api-signature"}

Called == call.client # 0

Caller == clients[call.client]

\* C1: the message given to HMAC-SHA256 with the API secret is the verb, the
\* URL path, "?" and the query string only when the query string is not
\* empty, the decimal string of the expiry and the body ("" without a body),
\* joined in this order without separators.
C1_CanonicalMessage ==
    (Called /\ call.sig.signed) =>
        /\ call.sig.message =
               call.sent.method \o call.sent.url.path
                   \o (IF call.sent.url.query # ""
                       THEN "?" \o call.sent.url.query ELSE "")
                   \o call.sent.headers["api-expires"]
                   \o (IF call.sent.body = None THEN "" ELSE call.sent.body)
        /\ call.sig.signature.key = Caller.api_secret
        /\ call.sig.signature.msg = call.sig.message
        /\ call.sig.signature.alg = "HMAC-SHA256"

C1_Witness ==
    /\ Called /\ call.sig.signed
    /\ call.sent.url.query = ""
    /\ call.sig.message = "GET/api/v1/position1700000005"

\* C2: the expiry of a signed request is the clock value read when the
\* request is signed plus 5 seconds, as an integer number of seconds.
C2_ExpiresIsNowPlus5 ==
    [][(ncalls' = ncalls + 1 /\ call'.sig.signed) =>
           /\ call'.sig.now = time
           /\ call'.sig.expires = time.sec + 5]_vars

C2_Witness ==
    /\ Called /\ call.sig.signed
    /\ call.sig.now.half = 1
    /\ call.sig.expires = ClockStart + 5

\* C3: with one secret, two signed requests that differ in verb, path, query,
\* expiry or body are signed over different messages, and so get different
\* signatures.
C3_MessageBindsTuple ==
    (Called /\ call.sig.signed) =>
        \A func_name \in DOMAIN classFuncs, k \in 0 .. MaxClock :
            \A kwargs \in KwargsFor(func_name) :
                LET other == PrepareRequest(classFuncs[func_name].verb, BASE_URL,
                                 classFuncs[func_name].endpoint, kwargs)
                    sig == SignatureOf(other, Caller.api_secret, TimeAt(k))
                IN  \/ /\ other.method = call.sent.method
                       /\ other.url.path = call.sent.url.path
                       /\ other.url.query = call.sent.url.query
                       /\ other.body = call.sent.body
                       /\ sig.expires = call.sig.expires
                    \/ /\ sig.message # call.sig.message
                       /\ sig.signature # call.sig.signature

C3_Witness ==
    /\ Called /\ call.sig.signed
    /\ call.sig.message = "POST/api/v1/order?symbol=XBTUSD&orderQty=111700000005"

\* C4: a request transmitted for a client with credentials carries the three
\* auth headers: api-key is the client's key, api-expires the decimal string
\* of the expiry in the signed message, api-signature the digest of that
\* message; no other header is added.
C4_AuthHeaders ==
    (Called /\ call.attempts = 1 /\ Truthy(Caller.api_key)) =>
        /\ AuthHeaders \subseteq DOMAIN call.sent.headers
        /\ (DOMAIN call.sent.headers) \ (DOMAIN call.prepared.headers) = AuthHeaders
        /\ call.sent.headers["api-key"] = Caller.api_key
        /\ call.sent.headers["api-expires"] = Str(call.sig.expires)
        /\ call.sig.message =
               call.sig.verb \o call.sig.path \o call.sent.headers["api-expires"]
                   \o call.sig.data
        /\ call.sent.headers["api-signature"] =
               HmacSha256Hex(Caller.api_secret, call.sig.message)

C4_Witness ==
    /\ Called /\ call.attempts = 1
    /\ Caller.api_key = "Acct_2_Key"
    /\ call.sent.headers["api-expires"] = "1700000006"

\* C5: a client with neither key nor secret sends the prepared request
\* without any of the three auth headers, and the request goes to the
\* transport as it does for a client with credentials: it is transmitted
\* unless the cache already holds a response for it.
C5_NoCredentials ==
    [][(ncalls' = ncalls + 1 /\ clients[call'.client].api_key = None
            /\ clients[call'.client].api_secret = None) =>
           /\ call'.raised # "AttributeError"
           /\ call'.sent = call'.prepared
           /\ AuthHeaders \cap DOMAIN call'.sent.headers = {}
           /\ call'.sig = NotSigned
           /\ (call'.attempts = 1) = (CacheKey(call'.prepared) \notin DOMAIN cache)
           /\ call'.from_cache = (CacheKey(call'.prepared) \in DOMAIN cache)
           /\ nwire' = nwire + call'.attempts]_vars

C5_Witness ==
    /\ Called /\ Caller.api_key = None /\ Caller.api_secret = None
    /\ call.attempts = 1 /\ call.sent.method = "POST"

C7_SignedIsSent ==
    (Called /\ call.sig.signed) =>
        /\ call.sig.verb = call.sent.method
        /\ call.sent.url.host \o call.sig.path = UrlString(call.sent.url)
        /\ call.sig.data = (IF call.sent.body = None THEN "" ELSE call.sent.body)
        /\ call.sent.method = call.prepared.method
        /\ call.sent.url = call.prepared.url
        /\ call.sent.body = call.prepared.body
        /\ \A h \in DOMAIN call.prepared.headers :
               call.sent.headers[h] = call.prepared.headers[h]
        /\ DOMAIN call.sent.headers = (DOMAIN call.prepared.headers) \cup AuthHeaders

C7_Witness ==
    /\ Called /\ call.sig.signed /\ call.attempts = 1
    /\ call.sig.path = "/api/v1/trade/bucketed?startTime=2020-01-01+00%3A00"

\* the operations of the endpoint table as documented: name, verb, path
Documented ==
    { <<<<"trade", "bucketed", "GET">>, "GET", "/trade/bucketed">>,
      <<<<"user", "wallet", "GET">>, "GET", "/user/wallet">>,
      <<<<"position", "GET">>, "GET", "/position">>,
      <<<<"instrument", "GET">>, "GET", "/instrument">>,
      <<<<"order", "POST">>, "POST", "/order">>,
      <<<<"order", "bulk", "POST">>, "POST", "/order/bulk">>,
      <<<<"order", "all", "DELETE">>, "DELETE", "/order/all">> }

\* C8: once a client is constructed, each of the seven operation names is a
\* callable that dispatches with its documented verb and path, whatever the
\* number of clients constructed, and a call of an operation is prepared
\* with that verb and path.
C8_Dispatch ==
    /\ (\E c \in ClientIds : clients[c].constructed) =>
           /\ DOMAIN classFuncs = {d[1] : d \in Documented}
           /\ \A d \in Documented :
                  classFuncs[d[1]] = [endpoint |-> d[3], verb |-> d[2]]
    /\ Called =>
           \E d \in Documented :
               /\ d[1] = call.func
               /\ call.prepared.method = d[2]
               /\ call.prepared.url.path = "/api/v1" \o d[3]

C8_Witness ==
    /\ \A c \in ClientIds : clients[c].constructed
    /\ Called /\ call.func = <<"order", "POST">>
    /\ call.sent.method = "POST" /\ call.sent.url.path = "/api/v1/order"

\* the query string each tried set of keyword arguments must give
ExpectedQuery(kwargs) ==
    CASE kwargs = NoKwargs -> ""
      [] kwargs = SymbolKwargs -> "symbol=XBTUSD"
      [] kwargs = MarketKwargs -> "orderQty=10&type=Market"
      [] kwargs = QtyKwargs(1) -> "symbol=XBTUSD&orderQty=1"
      [] kwargs = QtyKwargs(11) -> "symbol=XBTUSD&orderQty=11"
      [] kwargs = BulkKwargs -> "orders=%5B%5D"
      [] kwargs = TimeKwargs -> "startTime=2020-01-01+00%3A00"

\* C9 as stated: the named parameters are the query string of a GET and the
\* body of a POST, PUT or DELETE, whose query string does not hold them.
C9_Original ==
    Called =>
        IF call.verb = "GET"
        THEN /\ call.prepared.url.query = ExpectedQuery(call.kwargs)
             /\ call.prepared.body = None
        ELSE /\ call.prepared.url.query = ""
             /\ ExpectedQuery(call.kwargs) # "" =>
                    call.prepared.body = ExpectedQuery(call.kwargs)

\* C9 (amended): for every verb the named parameters are forwarded as the
\* URL query string, form-encoded in call order with the parameters whose
\* value is None left out, and the request has no body.
C9_ParamsInQuery ==
    Called =>
        /\ call.prepared.url.query = ExpectedQuery(call.kwargs)
        /\ call.prepared.body = None
        /\ call.sent # NoRequest =>
               /\ call.sent.url.query = ExpectedQuery(call.kwargs)
               /\ call.sent.body = None

C9_Witness ==
    /\ Called /\ call.verb = "POST" /\ call.kwargs = MarketKwargs
    /\ call.attempts = 1
    /\ call.sent.url.query = "orderQty=10&type=Market"
    /\ call.sent.body = None

\* C10: a response whose body is a JSON array of n objects and that has the
\* three rate-limit headers gives n + 1 records: the n decoded records in
\* their order, then one ratelimit record holding the three header values.
C10_Envelope ==
    (/\ Called /\ call.response # NoResponse
     /\ call.response.text.kind = "array"
     /\ \A i \in 1 .. 3 : RateLimitHeaders[i] \in DOMAIN call.response.headers) =>
        LET n == Len(call.response.text.items)
            headers == call.response.headers
        IN  /\ call.raised = None
            /\ call.result.kind = "list"
            /\ Len(call.result.items) = n + 1
            /\ \A i \in 1 .. n : call.result.items[i] = call.response.text.items[i]
            /\ call.result.items[n + 1] =
                   [ratelimit |-> [limit     |-> headers["x-ratelimit-limit"],
                                   remaining |-> headers["x-ratelimit-remaining"],
                                   reset     |-> headers["x-ratelimit-reset"]]]

C10_Witness ==
    /\ Called /\ call.attempts = 1
    /\ call.result.kind = "list"
    /\ call.result.items =
           <<ETHUSD, XBTUSD,
             [ratelimit |-> [limit |-> "300", remaining |-> "0",
                             reset |-> "1700000060"]]>>

\* the ratelimit record of a response that has the three headers
RatelimitOf(headers) ==
    [ratelimit |-> [limit     |-> headers["x-ratelimit-limit"],
                    remaining |-> headers["x-ratelimit-remaining"],
                    reset     |-> headers["x-ratelimit-reset"]]]

\* C11: when the wallet request returns the envelope of one record with
\* amount 150000000 followed by the ratelimit record, get_balance returns
\* 1.5, the amount divided by 100000000.
C11_BalanceReported ==
    (/\ op.name = "get_balance"
     /\ op.requests[1].result = Envelope(<<Wallet, RatelimitOf(AllHeaders)>>)) =>
        /\ op.raised = None
        /\ op.value.t = "float"
        /\ op.value.n * 2 = op.value.d * 3

\* C12: when the body of the response is not valid JSON, or one of the three
\* rate-limit headers is missing, the call does not raise: it returns the
\* caught error as its value, which is no envelope and holds no record.
C12_ErrorAsValue ==
    (/\ Called /\ call.response # NoResponse
     /\ \/ call.response.text.kind = "invalid"
        \/ \E i \in 1 .. 3 : RateLimitHeaders[i] \notin DOMAIN call.response.headers) =>
        /\ call.raised = None
        /\ call.result.kind = "error"
        /\ call.result.exc \in {"JSONDecodeError", "KeyError"}
        /\ call.result.items = <<>>
        /\ \A n \in 0 .. Len(call.response.text.items) :
               call.result # Envelope(SubSeq(call.response.text.items, 1, n))

C12_Witness ==
    /\ Called /\ call.attempts = 1
    /\ call.response = Response(200, JsonArray(<<Wallet>>),
                                HeadersWithout("x-ratelimit-reset"))
    /\ call.result = Error("KeyError")

\* C13: a request that cannot be transmitted ends the call with the raised
\* transport error: the call returns no value, neither an error value nor an
\* envelope, and nothing is saved in the cache.
C13_TransportErrorRaised ==
    [][(ncalls' = ncalls + 1 /\ call'.attempts > 0 /\ call'.response = NoResponse) =>
           /\ call'.raised = "ConnectionError"
           /\ call'.result = NoResult
           /\ cache' = cache]_vars

C13_Witness ==
    /\ Called /\ call.attempts = 1 /\ call.response = NoResponse
    /\ call.raised = "ConnectionError" /\ call.sig.signed

C15_Failsafe ==
    \A wallet \in {Wallet, LowWallet} :
        (/\ op.name = "balance_update"
         /\ op.requests[1].result = Envelope(<<wallet, RatelimitOf(AllHeaders)>>)) =>
            IF FloatLess(FloatV(wallet.amount, 100000000), fail_safe_amount)
            THEN /\ Len(op.requests) = 3
                 /\ op.requests[2].endpoint = "/order"
                 /\ op.requests[2].verb = "POST"
                 /\ op.requests[2].prepared.url.query = "execInst=Close"
                 /\ op.requests[3].endpoint = "/order/all"
                 /\ op.requests[3].verb = "DELETE"
                 /\ (op.requests[3].raised = None => op.exited)
            ELSE /\ Len(op.requests) = 1
                 /\ op.raised = None
                 /\ ~op.exited

\* C16: get_ohlcv with a timeframe that is not supported, and get_indicator
\* with a timeframe, an indicator or a source that is not supported, raise
\* ValueError without making a client, a session or a request.
C16_ValidationFirst ==
    [][(/\ op'.n = op.n + 1
        /\ \/ op'.args.timeframe \notin {"1m", "5m", "1h", "1d"}
           \/ /\ op'.name = "get_indicator"
              /\ \/ op'.args.indicator \notin supported_indicators
                 \/ op'.args.source \notin {"open", "close"}) =>
           /\ op'.raised = "ValueError"
           /\ op'.built = 0 /\ op'.requests = <<>>
           /\ nsessions' = nsessions /\ nwire' = nwire /\ cache' = cache
           /\ classFuncs' = classFuncs]_vars

C16_Witness ==
    /\ op.name = "get_indicator" /\ op.args.timeframe = "1m"
    /\ op.args.indicator = "EMA" /\ op.args.source = "high"
    /\ op.raised = "ValueError" /\ op.built = 0 /\ nsessions = 0

\* C17: get_price(symbol), given the envelope of the instrument request (the
\* decoded records and then the ratelimit record): when no record of it has
\* the requested symbol it raises the ValueError 'could not find ... contract',
\* and when a record has it, it returns the lastPrice of that record.
C17_Price ==
    (op.name = "get_price" /\ op.requests[1].result.kind = "list") =>
        LET response == op.requests[1].result.items
            found == {i \in 1 .. Len(response) :
                         /\ "symbol" \in DOMAIN response[i]
                         /\ response[i].symbol = op.args[1]}
        IN  IF found = {}
            THEN op.raised = "ValueError"
            ELSE /\ op.raised = None
                 /\ \E i \in found :
                        /\ \A j \in found : i <= j
                        /\ op.value = IntV(response[i].lastPrice)

\* the request each method of the trading facade is to make: endpoint, verb
\* and the query string of its arguments
FacadeRequests ==
    [get_balance   |-> <<"/user/wallet", "GET", "">>,
     get_position  |-> <<"/position", "GET", "">>,
     get_price     |-> <<"/instrument", "GET", "">>,
     market_order  |-> <<"/order", "POST", "symbol=XBTUSD&orderQty=10&type=Market">>,
     limit_order   |-> <<"/order", "POST",
                         "symbol=XBTUSD&orderQty=10&price=9000&type=Limit">>,
     close         |-> <<"/order", "POST", "symbol=XBTUSD&execInst=Close">>,
     cancel_orders |-> <<"/order/all", "DELETE", "">>]

C19_OwnCredentials ==
    [][/\ (ncalls' = ncalls + 1 /\ call'.attempts = 1) =>
              /\ call'.sent.headers["api-key"] = clients[call'.client].api_key
              /\ call'.sent.headers["api-signature"].key =
                     clients[call'.client].api_secret
              /\ \A d \in ClientIds :
                     (/\ clients[d].constructed
                      /\ clients[d].api_key # clients[call'.client].api_key) =>
                         /\ call'.sent.headers["api-key"] # clients[d].api_key
                         /\ call'.sent.headers["api-signature"].key #
                                clients[d].api_secret
       /\ \A c \in ClientIds :
              clients[c].constructed =>
                  /\ clients'[c].constructed
                  /\ clients'[c].api_key = clients[c].api_key
                  /\ clients'[c].api_secret = clients[c].api_secret]_vars

C19_Witness ==
    /\ clients[1].constructed /\ clients[2].constructed
    /\ clients[1].api_key = "Acct_1_Key" /\ clients[2].api_key = "Acct_2_Key"
    /\ clients[2].session # 0
    /\ ncalls = 2 /\ call.client = 1 /\ call.attempts = 1
    /\ call.sent.headers["api-key"] = "Acct_1_Key"
    /\ call.sent.headers["api-signature"].key = "Acct_1_Secret"

\* C20: a client has no session when it is constructed; its first request
\* call constructs one, and every later call of it, whatever the outcome of
\* the calls, uses that same session: a session of a client is never
\* replaced and never dropped.
C20_OneSession ==
    [][/\ \A c \in ClientIds :
              /\ (~clients[c].constructed /\ clients'[c].constructed) =>
                     (clients'[c].session = 0 /\ nsessions' = nsessions)
              /\ (clients[c].constructed /\ clients[c].session # 0) =>
                     clients'[c].session = clients[c].session
       /\ ncalls' = ncalls + 1 =>
              /\ call'.session # 0
              /\ call'.session = clients'[call'.client].session
              /\ IF clients[call'.client].session = 0
                 THEN nsessions' = nsessions + 1 /\ call'.session = nsessions'
                 ELSE nsessions' = nsessions]_vars

C20_Witness ==
    /\ ncalls = 2 /\ nsessions = 1
    /\ call.session = 1 /\ clients[call.client].session = 1
    /\ call.raised = "ConnectionError"

\* C21: the transport is constructed once and kept: over the operations made
\* through one facade object at most one session is ever constructed, and
\* every request of every operation is made on that one session.
C21_TransportOnce ==
    facade.constructed =>
        /\ nsessions <= 1
        /\ \A i \in DOMAIN op.requests : op.requests[i].session = 1

\* C22: hour, minute and second return only in a state where the field last
\* read equals the target, and, with a clock that keeps advancing and a loop
\* whose steps are taken in the end, a helper that was called returns in the
\* end, whatever target of the range it was given.
C22_Schedule ==
    /\ [](wait.pc = "returned" => wait.read = wait.target)
    /\ (wait.pc = "read") ~> (wait.pc = "returned")

\* C23: every call of a mutating operation (verb POST, PUT or DELETE) is
\* transmitted to the exchange, also when the same request was made before
\* against the same cache: the call is one more transmission and its answer
\* is never taken from the cache.
C23_MutatingTransmitted ==
    [][(ncalls' = ncalls + 1 /\ call'.verb \in {"POST", "PUT", "DELETE"}) =>
           /\ ~call'.from_cache
           /\ call'.attempts = 1
           /\ nwire' = nwire + 1]_vars

\* a call of get_indicator whose arguments passed the three checks and whose
\* request gave a frame
IndicatorCalled ==
    /\ op.name = "get_indicator" /\ op.built = 1
    /\ op.requests[1].raised = None
    /\ Frame(op.requests[1].result).raised = None

\* the indicators of TA-Lib that come to the end of the chain: the names
\* without a branch and the names whose branch computes without returning
Unreturned == {i \in supported_indicators : IndicatorEnd(i) = "end"}

\* C24 as stated: an indicator that passes the validation and returns from
\* no branch falls through the final else without raising, and the call
\* returns no value.
C24_Original ==
    (IndicatorCalled /\ op.args.indicator \in Unreturned) =>
        (op.raised = None /\ op.value = NoneV)

\* C24: an indicator that passes the validation and returns from no branch (a
\* name without a branch, or a branch such as APO that computes a value
\* without returning it) comes to the else of the last if of the chain, which
\* raises ValueError: the call never returns without a value.
C24_FinalElseRaises ==
    /\ (IndicatorCalled /\ op.args.indicator \in Unreturned) =>
           (op.raised = "ValueError" /\ op.value = NoneV)
    /\ (op.name = "get_indicator" /\ op.raised = None) => op.value # NoneV

C24_Witness ==
    /\ IndicatorCalled
    /\ op.args.indicator = "APO"
    /\ IndicatorOutputs("APO") # <<>>
    /\ op.requests[1].attempts = 1
    /\ op.raised = "ValueError"

\* the indicators whose branch computes its arrays and ends with a return
Implemented ==
    {i \in supported_indicators : IndicatorEnd(i) \in {"slices", "self.instances"}}

\* the last n values of a series, all of it when it has fewer
LastExactly(series, n) ==
    IF n >= Len(series) THEN series
    ELSE SubSeq(series, Len(series) - n + 1, Len(series))

\* C25: get_indicator requests instances + period candles, and for every
\* implemented indicator it returns, for each output of the indicator,
\* exactly the last instances values of the computed series, also when
\* instances is 0.
C25_LastInstances ==
    /\ (op.name = "get_indicator" /\ op.built = 1) =>
           op.requests[1].kwargs[4] =
               Kw("count", IntV(op.args.instances + op.args.period))
    /\ (IndicatorCalled /\ op.args.indicator \in Implemented) =>
           /\ op.raised = None
           /\ op.value.t = "arrays"
           /\ Len(op.value.arrays) = Len(IndicatorOutputs(op.args.indicator))
           /\ \A i \in 1 .. Len(op.value.arrays) :
                  op.value.arrays[i] =
                      LastExactly(TaFunc(IndicatorOutputs(op.args.indicator)[i],
                                         Frame(op.requests[1].result).value.rows),
                                  op.args.instances)

====
